---- MODULE Spec2Model ----
(***************************************************************************)
(* Cycle detection utilities of fraocme (src/fraocme/cycle/analysis.py).   *)
(* A State is a small natural number, a step function is a total function  *)
(* on States.  Every entry point of the module is an operator that follows *)
(* the loops of the Python code; the actions call them on inputs drawn     *)
(* from bounded sets and keep the returned value in `result`.              *)
(*                                                                         *)
(* Python values: None is [tag |-> "None"], a returned tuple is a record   *)
(* with tag "tuple", a returned state a record with tag "value", an        *)
(* IndexError a record with tag "IndexError", and a `while` loop that      *)
(* never exits a record with tag "diverged".  Python lists are sequences;  *)
(* list[j] (0-based) is read with PyIndex.                                 *)
(*                                                                         *)
(* The generator of iterate_with_cycle_detection is an object `gen` with   *)
(* the place it is suspended at and its local variables; one pull          *)
(* (next(gen)) is one action, and `emitted` lists the pairs pulled so far. *)
(***************************************************************************)
EXTENDS Integers, Sequences, FiniteSets, TLC

VARIABLES initial_state, step, max_iterations, fn, target_iteration, sequence, result,
          gen, emitted

vars == <<initial_state, step, max_iterations, fn, target_iteration, sequence, result,
          gen, emitted>>

\* ---------------------------------------------------------------- bounds
MaxState == 2
MaxIter == 4
MaxTarget == 7
MaxLen == 4
MaxPulls == 7

States == 0..MaxState
StepFunctions == [States -> States]

\* A deterministic loop over at most NumStates states (or pairs of them)
\* that has not exited after LoopFuel iterations never exits.
NumStates == MaxState + 1
LoopFuel == NumStates * NumStates

\* ---------------------------------------------------------------- Python values
NoneValue == [tag |-> "None"]
Diverged == [tag |-> "diverged"]

\* list[j] with Python's index rules: negative indices count from the end,
\* anything outside -len..len-1 raises IndexError.
PyIndex(list, j) ==
    IF 0 <= j /\ j < Len(list) THEN [tag |-> "value", state |-> list[j + 1]]
    ELSE IF j < 0 /\ -Len(list) <= j THEN [tag |-> "value", state |-> list[Len(list) + j + 1]]
    ELSE [tag |-> "IndexError"]

\* ---------------------------------------------------------------- find_cycle
\* Mutant: the hare advances one step per round, like the tortoise.
RECURSIVE floyd_phase1_slow_hare(_, _, _, _, _)
floyd_phase1_slow_hare(f, slow, fast, done, maxit) ==
    IF done >= maxit THEN [met |-> FALSE, rounds |-> done]
    ELSE LET s == f[slow]
             h == f[fast]
         IN IF s = h THEN [met |-> TRUE, slow |-> s, fast |-> h, rounds |-> done + 1]
            ELSE floyd_phase1_slow_hare(f, s, h, done + 1, maxit)

\* Phase 1: for _ in range(max_iterations): slow = step(slow);
\* fast = step(step(fast)); break when slow == fast; else: return None.
\* `done` is the number of rounds already made.
RECURSIVE floyd_phase1(_, _, _, _, _)
floyd_phase1(f, slow, fast, done, maxit) ==
    IF done >= maxit THEN [met |-> FALSE, rounds |-> done]
    ELSE LET s == f[slow]
             h == f[f[fast]]
         IN IF s = h THEN [met |-> TRUE, slow |-> s, fast |-> h, rounds |-> done + 1]
            ELSE floyd_phase1(f, s, h, done + 1, maxit)

\* Mutant: phase 2 advances fast only.
RECURSIVE floyd_phase2_fast_only(_, _, _, _, _)
floyd_phase2_fast_only(f, slow, fast, cycle_start, fuel) ==
    IF slow = fast THEN [exited |-> TRUE, slow |-> slow, fast |-> fast, cycle_start |-> cycle_start]
    ELSE IF fuel = 0 THEN [exited |-> FALSE]
    ELSE floyd_phase2_fast_only(f, slow, f[fast], cycle_start + 1, fuel - 1)

\* Mutant: phase 2 advances before it compares (a do-while loop).
RECURSIVE floyd_phase2_advance_first(_, _, _, _, _)
floyd_phase2_advance_first(f, slow, fast, cycle_start, fuel) ==
    IF fuel = 0 THEN [exited |-> FALSE]
    ELSE IF f[slow] = f[fast]
    THEN [exited |-> TRUE, slow |-> f[slow], fast |-> f[fast], cycle_start |-> cycle_start + 1]
    ELSE floyd_phase2_advance_first(f, f[slow], f[fast], cycle_start + 1, fuel - 1)

\* Phase 2: while slow != fast: slow = step(slow); fast = step(fast);
\* cycle_start += 1.
RECURSIVE floyd_phase2(_, _, _, _, _)
floyd_phase2(f, slow, fast, cycle_start, fuel) ==
    IF slow = fast THEN [exited |-> TRUE, slow |-> slow, fast |-> fast, cycle_start |-> cycle_start]
    ELSE IF fuel = 0 THEN [exited |-> FALSE]
    ELSE floyd_phase2(f, f[slow], f[fast], cycle_start + 1, fuel - 1)

\* Phase 3: while slow != fast: fast = step(fast); cycle_length += 1.
RECURSIVE floyd_phase3(_, _, _, _, _)
floyd_phase3(f, slow, fast, cycle_length, fuel) ==
    IF slow = fast THEN [exited |-> TRUE, cycle_length |-> cycle_length]
    ELSE IF fuel = 0 THEN [exited |-> FALSE]
    ELSE floyd_phase3(f, slow, f[fast], cycle_length + 1, fuel - 1)

\* Mutant: phase 2 starts without resetting slow to initial_state.
find_cycle_no_reset(init, f, maxit) ==
    LET p1 == floyd_phase1(f, init, init, 0, maxit)
    IN IF ~p1.met THEN NoneValue
       ELSE LET p2 == floyd_phase2(f, p1.slow, p1.fast, 0, LoopFuel)
            IN IF ~p2.exited THEN Diverged
               ELSE LET p3 == floyd_phase3(f, p2.slow, f[p2.slow], 1, LoopFuel)
                    IN IF ~p3.exited THEN Diverged
                       ELSE [tag |-> "tuple", cycle_start |-> p2.cycle_start,
                             cycle_length |-> p3.cycle_length, state |-> p2.slow]

\* Mutant: the meeting round is reported as the cycle length.
find_cycle_meeting_length(init, f, maxit) ==
    LET p1 == floyd_phase1(f, init, init, 0, maxit)
    IN IF ~p1.met THEN NoneValue
       ELSE LET p2 == floyd_phase2(f, init, p1.fast, 0, LoopFuel)
            IN IF ~p2.exited THEN Diverged
               ELSE [tag |-> "tuple", cycle_start |-> p2.cycle_start,
                     cycle_length |-> p1.rounds, state |-> p2.slow]

\* Mutant: phase 1 is not bounded by max_iterations.
find_cycle_unbounded(init, f, maxit) ==
    LET p1 == floyd_phase1(f, init, init, 0, LoopFuel)
    IN IF ~p1.met THEN Diverged
       ELSE LET p2 == floyd_phase2(f, init, p1.fast, 0, LoopFuel)
            IN IF ~p2.exited THEN Diverged
               ELSE LET p3 == floyd_phase3(f, p2.slow, f[p2.slow], 1, LoopFuel)
                    IN IF ~p3.exited THEN Diverged
                       ELSE [tag |-> "tuple", cycle_start |-> p2.cycle_start,
                             cycle_length |-> p3.cycle_length, state |-> p2.slow]

\* Mutant: phase 1 runs over range(1, max_iterations), one round short.
find_cycle_round_short(init, f, maxit) ==
    LET p1 == floyd_phase1(f, init, init, 1, maxit)
    IN IF ~p1.met THEN NoneValue
       ELSE LET p2 == floyd_phase2(f, init, p1.fast, 0, LoopFuel)
            IN IF ~p2.exited THEN Diverged
               ELSE LET p3 == floyd_phase3(f, p2.slow, f[p2.slow], 1, LoopFuel)
                    IN IF ~p3.exited THEN Diverged
                       ELSE [tag |-> "tuple", cycle_start |-> p2.cycle_start,
                             cycle_length |-> p3.cycle_length, state |-> p2.slow]

\* Mutant: max_iterations bounds the hare's advances (two per round)
\* instead of the rounds.
find_cycle_hare_budget(init, f, maxit) ==
    LET p1 == floyd_phase1(f, init, init, 0, maxit \div 2)
    IN IF ~p1.met THEN NoneValue
       ELSE LET p2 == floyd_phase2(f, init, p1.fast, 0, LoopFuel)
            IN IF ~p2.exited THEN Diverged
               ELSE LET p3 == floyd_phase3(f, p2.slow, f[p2.slow], 1, LoopFuel)
                    IN IF ~p3.exited THEN Diverged
                       ELSE [tag |-> "tuple", cycle_start |-> p2.cycle_start,
                             cycle_length |-> p3.cycle_length, state |-> p2.slow]

find_cycle(init, f, maxit) ==
    LET p1 == floyd_phase1(f, init, init, 0, maxit)
    IN IF ~p1.met THEN NoneValue
       ELSE LET p2 == floyd_phase2(f, init, p1.fast, 0, LoopFuel)
            IN IF ~p2.exited THEN Diverged
               ELSE LET p3 == floyd_phase3(f, p2.slow, f[p2.slow], 1, LoopFuel)
                    IN IF ~p3.exited THEN Diverged
                       ELSE [tag |-> "tuple", cycle_start |-> p2.cycle_start,
                             cycle_length |-> p3.cycle_length, state |-> p2.slow]

\* The three phases of find_cycle, as find_cycle runs them: what each loop
\* left in slow, fast and its counter (a phase that was not reached has
\* exited = FALSE).
floyd_phases(init, f, maxit) ==
    LET p1 == floyd_phase1(f, init, init, 0, maxit)
        p2 == IF p1.met THEN floyd_phase2(f, init, p1.fast, 0, LoopFuel)
              ELSE [exited |-> FALSE]
        p3 == IF p2.exited THEN floyd_phase3(f, p2.slow, f[p2.slow], 1, LoopFuel)
              ELSE [exited |-> FALSE]
    IN [phase1 |-> p1, phase2 |-> p2, phase3 |-> p3]

\* The arguments step is evaluated on, in order, by each loop of find_cycle.
\* Mutant: a round of phase 1 is charged two evaluations, the hare's second
\* step is left out.
RECURSIVE floyd_phase1_calls_two(_, _, _, _, _)
floyd_phase1_calls_two(f, slow, fast, done, maxit) ==
    IF done >= maxit THEN <<>>
    ELSE LET s == f[slow]
             h == f[f[fast]]
         IN <<slow, fast>>
                \o (IF s = h THEN <<>> ELSE floyd_phase1_calls_two(f, s, h, done + 1, maxit))

\* A round of phase 1: step(slow), step(fast), step(step(fast)).
RECURSIVE floyd_phase1_calls(_, _, _, _, _)
floyd_phase1_calls(f, slow, fast, done, maxit) ==
    IF done >= maxit THEN <<>>
    ELSE LET s == f[slow]
             h == f[f[fast]]
         IN <<slow, fast, f[fast]>>
                \o (IF s = h THEN <<>> ELSE floyd_phase1_calls(f, s, h, done + 1, maxit))

\* An iteration of phase 2: step(slow), step(fast).
RECURSIVE floyd_phase2_calls(_, _, _, _)
floyd_phase2_calls(f, slow, fast, fuel) ==
    IF slow = fast \/ fuel = 0 THEN <<>>
    ELSE <<slow, fast>> \o floyd_phase2_calls(f, f[slow], f[fast], fuel - 1)

\* An iteration of phase 3: step(fast).
RECURSIVE floyd_phase3_calls(_, _, _, _)
floyd_phase3_calls(f, slow, fast, fuel) ==
    IF slow = fast \/ fuel = 0 THEN <<>>
    ELSE <<fast>> \o floyd_phase3_calls(f, slow, f[fast], fuel - 1)

\* The whole call: phase 1, then (after a meeting) phase 2 from
\* slow = initial_state, fast = step(slow) and phase 3.
find_cycle_calls(init, f, maxit) ==
    LET p1 == floyd_phase1(f, init, init, 0, maxit)
        c1 == floyd_phase1_calls(f, init, init, 0, maxit)
    IN IF ~p1.met THEN c1
       ELSE LET p2 == floyd_phase2(f, init, p1.fast, 0, LoopFuel)
                c2 == floyd_phase2_calls(f, init, p1.fast, LoopFuel)
            IN IF ~p2.exited THEN c1 \o c2
               ELSE c1 \o c2 \o <<p2.slow>>
                       \o floyd_phase3_calls(f, p2.slow, f[p2.slow], LoopFuel)

\* The local variables find_cycle assigns (its arguments left aside), as a
\* record of the names bound so far, after each of these statements:
\* slow = fast = initial_state; the end of a round of phase 1 (before the
\* test slow == fast); cycle_start = 0; the end of an iteration of phase 2;
\* fast = step(slow); the end of an iteration of phase 3.  "_" is the loop
\* variable of for _ in range(max_iterations).
RECURSIVE floyd_phase1_locals(_, _, _, _, _)
floyd_phase1_locals(f, slow, fast, done, maxit) ==
    IF done >= maxit THEN <<>>
    ELSE LET s == f[slow]
             h == f[f[fast]]
         IN <<("_" :> done) @@ [slow |-> s, fast |-> h]>>
                \o (IF s = h THEN <<>> ELSE floyd_phase1_locals(f, s, h, done + 1, maxit))

RECURSIVE floyd_phase2_locals(_, _, _, _, _, _)
floyd_phase2_locals(f, slow, fast, cycle_start, fuel, round) ==
    IF slow = fast \/ fuel = 0 THEN <<>>
    ELSE <<("_" :> round) @@ [slow |-> f[slow], fast |-> f[fast],
                              cycle_start |-> cycle_start + 1]>>
             \o floyd_phase2_locals(f, f[slow], f[fast], cycle_start + 1, fuel - 1, round)

RECURSIVE floyd_phase3_locals(_, _, _, _, _, _, _)
floyd_phase3_locals(f, slow, fast, cycle_start, cycle_length, fuel, round) ==
    IF slow = fast \/ fuel = 0 THEN <<>>
    ELSE <<("_" :> round) @@ [slow |-> slow, fast |-> f[fast], cycle_start |-> cycle_start,
                              cycle_length |-> cycle_length + 1]>>
             \o floyd_phase3_locals(f, slow, f[fast], cycle_start, cycle_length + 1,
                                    fuel - 1, round)

find_cycle_locals(init, f, maxit) ==
    LET p1 == floyd_phase1(f, init, init, 0, maxit)
        l1 == <<[slow |-> init, fast |-> init]>> \o floyd_phase1_locals(f, init, init, 0, maxit)
    IN IF ~p1.met THEN l1
       ELSE LET round == p1.rounds - 1
                p2 == floyd_phase2(f, init, p1.fast, 0, LoopFuel)
                l2 == <<("_" :> round) @@ [slow |-> init, fast |-> p1.fast, cycle_start |-> 0]>>
                          \o floyd_phase2_locals(f, init, p1.fast, 0, LoopFuel, round)
            IN IF ~p2.exited THEN l1 \o l2
               ELSE l1 \o l2
                       \o <<("_" :> round) @@ [slow |-> p2.slow, fast |-> f[p2.slow],
                                               cycle_start |-> p2.cycle_start,
                                               cycle_length |-> 1]>>
                       \o floyd_phase3_locals(f, p2.slow, f[p2.slow], p2.cycle_start, 1,
                                              LoopFuel, round)

\* ---------------------------------------------------------------- find_cycle_with_history
\* for i in range(1, max_iterations): state = step(state); if state in seen:
\* return seen[state], i - seen[state], history; seen[state] = i;
\* history.append(state).  After the loop: return None.
RECURSIVE history_loop(_, _, _, _, _, _)
history_loop(f, state, seen, history, i, maxit) ==
    IF i >= maxit THEN NoneValue
    ELSE LET next == f[state]
         IN IF next \in DOMAIN seen
            THEN [tag |-> "tuple", cycle_start |-> seen[next],
                  cycle_length |-> i - seen[next], history |-> history]
            ELSE history_loop(f, next, (next :> i) @@ seen, Append(history, next), i + 1, maxit)

\* Mutant: the repeated state is appended to history before the return.
RECURSIVE history_loop_append_first(_, _, _, _, _, _)
history_loop_append_first(f, state, seen, history, i, maxit) ==
    IF i >= maxit THEN NoneValue
    ELSE LET next == f[state]
         IN IF next \in DOMAIN seen
            THEN [tag |-> "tuple", cycle_start |-> seen[next],
                  cycle_length |-> i - seen[next], history |-> Append(history, next)]
            ELSE history_loop_append_first(f, next, (next :> i) @@ seen,
                                           Append(history, next), i + 1, maxit)

find_cycle_with_history_append_first(init, f, maxit) ==
    history_loop_append_first(f, init, (init :> 0), <<init>>, 1, maxit)

\* Mutant: cycle_length = i, the prefix is not subtracted.
RECURSIVE history_loop_length_i(_, _, _, _, _, _)
history_loop_length_i(f, state, seen, history, i, maxit) ==
    IF i >= maxit THEN NoneValue
    ELSE LET next == f[state]
         IN IF next \in DOMAIN seen
            THEN [tag |-> "tuple", cycle_start |-> seen[next],
                  cycle_length |-> i, history |-> history]
            ELSE history_loop_length_i(f, next, (next :> i) @@ seen,
                                       Append(history, next), i + 1, maxit)

find_cycle_with_history_length_i(init, f, maxit) ==
    history_loop_length_i(f, init, (init :> 0), <<init>>, 1, maxit)

find_cycle_with_history(init, f, maxit) ==
    history_loop(f, init, (init :> 0), <<init>>, 1, maxit)

\* The local variables of find_cycle_with_history when it returns: state is
\* the last value step returned, calls the arguments step was evaluated on,
\* in order, and found tells which return was taken (inside the loop, or
\* return None after it).  The parameter i is the next value of
\* range(1, max_iterations); when the range is exhausted the local i keeps
\* the last value it was given, and is unbound if the body never ran.
RECURSIVE history_locals_loop(_, _, _, _, _, _, _)
history_locals_loop(f, state, seen, history, i, maxit, calls) ==
    IF i >= maxit
    THEN [found |-> FALSE, state |-> state, seen |-> seen, history |-> history,
          i |-> IF i = 1 THEN "unbound" ELSE i - 1, calls |-> calls]
    ELSE LET next == f[state]
         IN IF next \in DOMAIN seen
            THEN [found |-> TRUE, state |-> next, seen |-> seen, history |-> history,
                  i |-> i, calls |-> Append(calls, state)]
            ELSE history_locals_loop(f, next, (next :> i) @@ seen, Append(history, next),
                                     i + 1, maxit, Append(calls, state))

\* Mutant: seen[state] = i is executed before the membership test's return,
\* so the repeated state's entry is overwritten.
RECURSIVE history_locals_loop_overwrite(_, _, _, _, _, _, _)
history_locals_loop_overwrite(f, state, seen, history, i, maxit, calls) ==
    IF i >= maxit
    THEN [found |-> FALSE, state |-> state, seen |-> seen, history |-> history,
          i |-> IF i = 1 THEN "unbound" ELSE i - 1, calls |-> calls]
    ELSE LET next == f[state]
         IN IF next \in DOMAIN seen
            THEN [found |-> TRUE, state |-> next, seen |-> (next :> i) @@ seen,
                  history |-> history, i |-> i, calls |-> Append(calls, state)]
            ELSE history_locals_loop_overwrite(f, next, (next :> i) @@ seen,
                                               Append(history, next), i + 1, maxit,
                                               Append(calls, state))

find_cycle_with_history_locals_overwrite(init, f, maxit) ==
    history_locals_loop_overwrite(f, init, (init :> 0), <<init>>, 1, maxit, <<>>)

find_cycle_with_history_locals(init, f, maxit) ==
    history_locals_loop(f, init, (init :> 0), <<init>>, 1, maxit, <<>>)

\* ---------------------------------------------------------------- get_state_at_iteration
\* state = initial_state; for _ in range(target_iteration): state = step(state).
\* `steps` counts the evaluations of step made by the loop.
RECURSIVE direct_simulation(_, _, _, _)
direct_simulation(f, state, steps, target) ==
    IF steps >= target THEN [state |-> state, steps |-> steps]
    ELSE direct_simulation(f, f[state], steps + 1, target)

\* Mutant: the jump-ahead reduces modulo the length of the history window
\* instead of the cycle length.
get_state_at_iteration_mod_window(init, f, target, maxit) ==
    LET r == find_cycle_with_history(init, f, maxit)
    IN IF r = NoneValue
       THEN LET sim == direct_simulation(f, init, 0, target)
            IN [tag |-> "value", state |-> sim.state, branch |-> "fallback", steps |-> sim.steps]
       ELSE IF target < Len(r.history)
            THEN PyIndex(r.history, target) @@ [branch |-> "history", steps |-> 0]
            ELSE LET remaining == (target - r.cycle_start) % Len(r.history)
                 IN PyIndex(r.history, r.cycle_start + remaining)
                        @@ [branch |-> "jump", steps |-> 0]

\* Mutant: the jump-ahead forgets the prefix, remaining = target % cycle_length.
get_state_at_iteration_no_offset(init, f, target, maxit) ==
    LET r == find_cycle_with_history(init, f, maxit)
    IN IF r = NoneValue
       THEN LET sim == direct_simulation(f, init, 0, target)
            IN [tag |-> "value", state |-> sim.state, branch |-> "fallback", steps |-> sim.steps]
       ELSE IF target < Len(r.history)
            THEN PyIndex(r.history, target) @@ [branch |-> "history", steps |-> 0]
            ELSE LET remaining == target % r.cycle_length
                 IN PyIndex(r.history, r.cycle_start + remaining)
                        @@ [branch |-> "jump", steps |-> 0]

\* Mutant: a failed detection is handed to the caller instead of simulating.
get_state_at_iteration_no_fallback(init, f, target, maxit) ==
    LET r == find_cycle_with_history(init, f, maxit)
    IN IF r = NoneValue
       THEN NoneValue
       ELSE IF target < Len(r.history)
            THEN PyIndex(r.history, target) @@ [branch |-> "history", steps |-> 0]
            ELSE LET remaining == (target - r.cycle_start) % r.cycle_length
                 IN PyIndex(r.history, r.cycle_start + remaining)
                        @@ [branch |-> "jump", steps |-> 0]

\* The returned record carries, beside the state, the branch that produced
\* it and the number of step evaluations of the fallback loop.
get_state_at_iteration(init, f, target, maxit) ==
    LET r == find_cycle_with_history(init, f, maxit)
    IN IF r = NoneValue
       THEN LET sim == direct_simulation(f, init, 0, target)
            IN [tag |-> "value", state |-> sim.state, branch |-> "fallback", steps |-> sim.steps]
       ELSE IF target < Len(r.history)
            THEN PyIndex(r.history, target) @@ [branch |-> "history", steps |-> 0]
            ELSE LET remaining == (target - r.cycle_start) % r.cycle_length
                 IN PyIndex(r.history, r.cycle_start + remaining)
                        @@ [branch |-> "jump", steps |-> 0]

\* The arguments step is evaluated on, in order, by the fallback loop.
RECURSIVE direct_simulation_calls(_, _, _, _)
direct_simulation_calls(f, state, steps, target) ==
    IF steps >= target THEN <<>>
    ELSE <<state>> \o direct_simulation_calls(f, f[state], steps + 1, target)

\* The evaluations of one get_state_at_iteration call: those of its
\* find_cycle_with_history call, then those of the fallback loop, which
\* starts again from initial_state when the detection returned None.
get_state_at_iteration_calls(init, f, target, maxit) ==
    LET r == find_cycle_with_history(init, f, maxit)
    IN [detection |-> find_cycle_with_history_locals(init, f, maxit).calls,
        fallback |-> IF r = NoneValue THEN direct_simulation_calls(f, init, 0, target)
                     ELSE <<>>]

\* ---------------------------------------------------------------- simulate_until_repeat
\* for i in range(1, max_iterations): state = step(state); if state in seen:
\* return i, state; seen[state] = i.  After the loop: return None.
RECURSIVE repeat_loop(_, _, _, _, _)
repeat_loop(f, state, seen, i, maxit) ==
    IF i >= maxit THEN NoneValue
    ELSE LET next == f[state]
         IN IF next \in DOMAIN seen
            THEN [tag |-> "tuple", iteration |-> i, state |-> next]
            ELSE repeat_loop(f, next, (next :> i) @@ seen, i + 1, maxit)

\* Mutant: the loop runs over range(max_iterations), one iteration early.
simulate_until_repeat_from_zero(init, f, maxit) ==
    repeat_loop(f, init, (init :> 0), 0, maxit)

simulate_until_repeat(init, f, maxit) ==
    repeat_loop(f, init, (init :> 0), 1, maxit)

\* The arguments step is evaluated on, in order, by simulate_until_repeat.
RECURSIVE repeat_calls_loop(_, _, _, _, _)
repeat_calls_loop(f, state, seen, i, maxit) ==
    IF i >= maxit THEN <<>>
    ELSE LET next == f[state]
         IN IF next \in DOMAIN seen
            THEN <<state>>
            ELSE <<state>> \o repeat_calls_loop(f, next, (next :> i) @@ seen, i + 1, maxit)

simulate_until_repeat_calls(init, f, maxit) ==
    repeat_calls_loop(f, init, (init :> 0), 1, maxit)

\* ---------------------------------------------------------------- detect_cycle_in_sequence
\* for i, state in enumerate(sequence): if state in seen: return seen[state],
\* i - seen[state]; seen[state] = i.  After the loop: return None.
RECURSIVE sequence_loop(_, _, _)
sequence_loop(list, seen, i) ==
    IF i >= Len(list) THEN NoneValue
    ELSE LET state == list[i + 1]
         IN IF state \in DOMAIN seen
            THEN [tag |-> "tuple", cycle_start |-> seen[state], cycle_length |-> i - seen[state]]
            ELSE sequence_loop(list, (state :> i) @@ seen, i + 1)

\* Mutant: an element is compared with its predecessor only, not with every
\* earlier element.
RECURSIVE sequence_loop_adjacent(_, _, _)
sequence_loop_adjacent(list, seen, i) ==
    IF i >= Len(list) THEN NoneValue
    ELSE LET state == list[i + 1]
         IN IF i > 0 /\ list[i] = state
            THEN [tag |-> "tuple", cycle_start |-> i - 1, cycle_length |-> 1]
            ELSE sequence_loop_adjacent(list, seen, i + 1)

detect_cycle_in_sequence_adjacent(list) == sequence_loop_adjacent(list, <<>>, 0)

\* Mutant: the last element of the sequence is not examined.
detect_cycle_in_sequence_skip_last(list) ==
    sequence_loop(SubSeq(list, 1, Len(list) - 1), <<>>, 0)

\* Mutant: the pair is returned as (cycle_length, cycle_start).
detect_cycle_in_sequence_swapped(list) ==
    LET r == sequence_loop(list, <<>>, 0)
    IN IF r = NoneValue THEN r
       ELSE [tag |-> "tuple", cycle_start |-> r.cycle_length, cycle_length |-> r.cycle_start]

detect_cycle_in_sequence(list) == sequence_loop(list, <<>>, 0)

\* ---------------------------------------------------------------- iterate_with_cycle_detection
\* Calling the generator function runs none of its body: the object holds
\* the arguments and is suspended before the first statement ("start").
\* cycle_info is the attribute of that name on the generator object;
\* NoneValue stands for an attribute that was never set.
iterate_with_cycle_detection(init, f, maxit) ==
    [pc |-> "start", i |-> 0, state |-> init, seen |-> <<>>, evals |-> 0,
     last |-> "none", cycle_info |-> NoneValue]

\* What a pull hands to the consumer.
Yield(i, state) == [tag |-> "yield", iteration |-> i, state |-> state]
StopIteration == [tag |-> "StopIteration"]

\* Mutant: the first pull computes the next state ahead of its yield.
gen_first_prefetch(g) ==
    [gen |-> [g EXCEPT !.pc = "first", !.seen = (g.state :> 0), !.evals = 1,
                       !.last = "yield"],
     out |-> Yield(0, g.state)]

\* The first pull: seen = {initial_state: 0}; state = initial_state;
\* yield 0, state.
gen_first(g) ==
    [gen |-> [g EXCEPT !.pc = "first", !.seen = (g.state :> 0), !.last = "yield"],
     out |-> Yield(0, g.state)]

\* for i in range(1, max_iterations) is exhausted: the body ends, and the
\* pull raises StopIteration.
gen_exhausted(g, f) ==
    [gen |-> [g EXCEPT !.pc = "done", !.last = "StopIteration"], out |-> StopIteration]

\* Mutant: an exhausted bookkeeping loop goes on yielding states without
\* tracking them.
gen_tracking_unbounded(g, f, maxit) ==
    LET i == g.i + 1
        state == f[g.state]
    IN IF i < maxit /\ state \in DOMAIN g.seen
       THEN [gen |-> [g EXCEPT !.pc = "detected", !.i = i, !.state = state,
                               !.evals = g.evals + 1, !.last = "yield"],
             out |-> Yield(i, state)]
       ELSE [gen |-> [g EXCEPT !.pc = "tracked", !.i = i, !.state = state,
                               !.seen = IF i < maxit THEN (state :> i) @@ g.seen ELSE g.seen,
                               !.evals = g.evals + 1, !.last = "yield"],
             out |-> Yield(i, state)]

\* A pull while in the for loop: the next i of range(1, max_iterations);
\* state = step(state); if state in seen: yield i, state (and enter
\* while True); else seen[state] = i; yield i, state.
gen_tracking(g, f, maxit) ==
    LET i == g.i + 1
    IN IF i >= maxit THEN gen_exhausted(g, f)
       ELSE LET state == f[g.state]
            IN IF state \in DOMAIN g.seen
               THEN [gen |-> [g EXCEPT !.pc = "detected", !.i = i, !.state = state,
                                       !.evals = g.evals + 1, !.last = "yield"],
                     out |-> Yield(i, state)]
               ELSE [gen |-> [g EXCEPT !.pc = "tracked", !.i = i, !.state = state,
                                       !.seen = (state :> i) @@ g.seen,
                                       !.evals = g.evals + 1, !.last = "yield"],
                     out |-> Yield(i, state)]

\* Mutant: the index is not advanced inside while True.
gen_cycling_same_index(g, f) ==
    LET state == f[g.state]
    IN [gen |-> [g EXCEPT !.pc = "cycling", !.state = state,
                          !.evals = g.evals + 1, !.last = "yield"],
        out |-> Yield(g.i, state)]

\* Mutant: the generator returns once the cycle is known.
gen_cycling_stops(g, f) ==
    [gen |-> [g EXCEPT !.pc = "done", !.last = "StopIteration"], out |-> StopIteration]

\* Mutant: the bookkeeping seen[state] = i goes on inside while True.
gen_cycling_keeps_tracking(g, f) ==
    LET i == g.i + 1
        state == f[g.state]
    IN [gen |-> [g EXCEPT !.pc = "cycling", !.i = i, !.state = state,
                          !.seen = (state :> i) @@ g.seen,
                          !.evals = g.evals + 1, !.last = "yield"],
        out |-> Yield(i, state)]

\* Mutant: while True advances two steps per pull.
gen_cycling_double_step(g, f) ==
    LET i == g.i + 1
        state == f[f[g.state]]
    IN [gen |-> [g EXCEPT !.pc = "cycling", !.i = i, !.state = state,
                          !.evals = g.evals + 2, !.last = "yield"],
        out |-> Yield(i, state)]

\* A pull after detection, inside while True: i += 1; state = step(state);
\* yield i, state.
gen_cycling(g, f) ==
    LET i == g.i + 1
        state == f[g.state]
    IN [gen |-> [g EXCEPT !.pc = "cycling", !.i = i, !.state = state,
                          !.evals = g.evals + 1, !.last = "yield"],
        out |-> Yield(i, state)]

\* One next(gen): the body runs from the place it is suspended at to the
\* next yield, or to its end (StopIteration).  pc is the yield the
\* generator is suspended at: "first" (yield 0, state), "tracked" (the yield
\* that ends a loop iteration without a repeat), "detected" (the yield
\* after state in seen), "cycling" (the yield of while True), or "done".
\* evals counts the evaluations of step.
gen_next(g, f, maxit) ==
    IF g.pc = "start" THEN gen_first(g)
    ELSE IF g.pc \in {"first", "tracked"} THEN gen_tracking(g, f, maxit)
    ELSE IF g.pc \in {"detected", "cycling"} THEN gen_cycling(g, f)
    ELSE [gen |-> [g EXCEPT !.last = "StopIteration"], out |-> StopIteration]

\* ---------------------------------------------------------------- callers
\* The caller materializes the first n states of the sequence generated by
\* step from initial_state: [state_at(0), ..., state_at(n-1)].
RECURSIVE materialize(_, _, _)
materialize(f, state, n) ==
    IF n = 0 THEN <<>> ELSE <<state>> \o materialize(f, f[state], n - 1)

Functions == {"find_cycle", "find_cycle_with_history", "get_state_at_iteration",
              "simulate_until_repeat", "detect_cycle_in_sequence"}

\* A caller holds an initial state, a step function and a safety limit, and
\* has called nothing yet; a generator was created and not pulled.  fn, target_iteration, sequence and result are the
\* last call made: its function, its further arguments (0 and <<>> when the
\* function takes none) and the value it returned.
Init ==
    /\ initial_state \in States
    /\ step \in StepFunctions
    /\ max_iterations \in 0..MaxIter
    /\ fn = "none"
    /\ target_iteration = 0
    /\ sequence = <<>>
    /\ result = NoneValue
    /\ gen = iterate_with_cycle_detection(initial_state, step, max_iterations)
    /\ emitted = <<>>

CallFindCycle ==
    /\ fn' = "find_cycle"
    /\ result' = find_cycle(initial_state, step, max_iterations)
    /\ target_iteration' = 0
    /\ sequence' = <<>>
    /\ UNCHANGED <<initial_state, step, max_iterations, gen, emitted>>

CallFindCycleWithHistory ==
    /\ fn' = "find_cycle_with_history"
    /\ result' = find_cycle_with_history(initial_state, step, max_iterations)
    /\ target_iteration' = 0
    /\ sequence' = <<>>
    /\ UNCHANGED <<initial_state, step, max_iterations, gen, emitted>>

CallGetStateAtIteration ==
    \E t \in 0..MaxTarget :
        /\ fn' = "get_state_at_iteration"
        /\ target_iteration' = t
        /\ result' = get_state_at_iteration(initial_state, step, t, max_iterations)
        /\ sequence' = <<>>
        /\ UNCHANGED <<initial_state, step, max_iterations, gen, emitted>>

CallSimulateUntilRepeat ==
    /\ fn' = "simulate_until_repeat"
    /\ result' = simulate_until_repeat(initial_state, step, max_iterations)
    /\ target_iteration' = 0
    /\ sequence' = <<>>
    /\ UNCHANGED <<initial_state, step, max_iterations, gen, emitted>>

\* The history list a History Detector call just returned is handed to the
\* Sequence Detector.
CallDetectOnHistory ==
    /\ fn = "find_cycle_with_history"
    /\ result.tag = "tuple"
    /\ fn' = "detect_cycle_in_sequence"
    /\ sequence' = result.history
    /\ result' = detect_cycle_in_sequence(result.history)
    /\ target_iteration' = 0
    /\ UNCHANGED <<initial_state, step, max_iterations, gen, emitted>>

\* A list of the first n generated states is handed to the Sequence Detector.
CallDetectOnGenerated ==
    \E n \in 0..(MaxLen + 1) :
        /\ fn' = "detect_cycle_in_sequence"
        /\ sequence' = materialize(step, initial_state, n)
        /\ result' = detect_cycle_in_sequence(sequence')
        /\ target_iteration' = 0
        /\ UNCHANGED <<initial_state, step, max_iterations, gen, emitted>>

Next ==
    \/ CallFindCycle
    \/ CallFindCycleWithHistory
    \/ CallGetStateAtIteration
    \/ CallSimulateUntilRepeat
    \/ CallDetectOnHistory
    \/ CallDetectOnGenerated

Spec == Init /\ [][Next]_vars

\* The Sequence Detector alone, on every list of at most MaxLen states.
RECURSIVE Lists(_)
Lists(n) ==
    IF n = 0 THEN {<<>>}
    ELSE Lists(n - 1) \cup {Append(l, x) : l \in {m \in Lists(n - 1) : Len(m) = n - 1}, x \in States}

SeqInit ==
    /\ initial_state = 0
    /\ step = [x \in States |-> x]
    /\ max_iterations = 0
    /\ fn = "none"
    /\ target_iteration = 0
    /\ sequence \in Lists(MaxLen)
    /\ result = NoneValue
    /\ gen = iterate_with_cycle_detection(initial_state, step, max_iterations)
    /\ emitted = <<>>

CallDetectCycleInSequence ==
    /\ fn' = "detect_cycle_in_sequence"
    /\ result' = detect_cycle_in_sequence(sequence)
    /\ UNCHANGED <<initial_state, step, max_iterations, target_iteration, sequence, gen, emitted>>

SeqNext == CallDetectCycleInSequence

SeqSpec == SeqInit /\ [][SeqNext]_vars

\* The Streaming Generator alone: a consumer pulls from the generator
\* created in Init, at most MaxPulls pairs.
GenInit ==
    /\ initial_state \in States
    /\ step \in StepFunctions
    /\ max_iterations \in 0..MaxIter
    /\ fn = "none"
    /\ target_iteration = 0
    /\ sequence = <<>>
    /\ result = NoneValue
    /\ gen = iterate_with_cycle_detection(initial_state, step, max_iterations)
    /\ emitted = <<>>

\* next(gen): a yielded pair is appended to what the consumer holds.
Pull ==
    /\ Len(emitted) < MaxPulls
    /\ LET n == gen_next(gen, step, max_iterations)
       IN /\ gen' = n.gen
          /\ emitted' = IF n.out.tag = "yield"
                        THEN Append(emitted, <<n.out.iteration, n.out.state>>)
                        ELSE emitted
    /\ UNCHANGED <<initial_state, step, max_iterations, fn, target_iteration, sequence, result>>

GenNext == Pull

GenSpec == GenInit /\ [][GenNext]_vars

\* A caller that calls the detectors and the resolver and pulls from a live
\* generator, for any safety limit.
EvalNext ==
    \/ CallFindCycle
    \/ CallFindCycleWithHistory
    \/ CallGetStateAtIteration
    \/ CallSimulateUntilRepeat
    \/ Pull

EvalSpec == Init /\ [][EvalNext]_vars

TypeOK ==
    /\ initial_state \in States
    /\ step \in StepFunctions
    /\ max_iterations \in 0..MaxIter
    /\ fn \in Functions \cup {"none"}
    /\ target_iteration \in 0..MaxTarget
    /\ result.tag \in {"None", "tuple", "value", "IndexError", "diverged"}
    /\ gen.pc \in {"start", "first", "tracked", "detected", "cycling", "done"}
    /\ gen.last \in {"none", "yield", "StopIteration"}
    /\ Len(emitted) <= MaxPulls

\* ---------------------------------------------------------------- reference notions
\* k applications of f to s, by definition (no cycle detection).
RECURSIVE Iterate(_, _, _)
Iterate(f, s, k) == IF k = 0 THEN s ELSE Iterate(f, f[s], k - 1)

state_at(k) == Iterate(step, initial_state, k)

\* state_at(i) = state_at(i + L).  Over NumStates states the sequence enters
\* its cycle before index NumStates and the period is at most NumStates, so
\* indices 0..NumStates and lengths 1..NumStates decide "some index".
Recurs(i, L) == state_at(i) = state_at(i + L)

RecursSomewhere(L) == \E i \in 0..NumStates : Recurs(i, L)

TrueLength ==
    CHOOSE L \in 1..NumStates :
        RecursSomewhere(L) /\ \A M \in 1..(L - 1) : ~RecursSomewhere(M)

TrueStart ==
    CHOOSE i \in 0..NumStates :
        Recurs(i, TrueLength) /\ \A j \in 0..(i - 1) : ~Recurs(j, TrueLength)

\* The History Detector's answer for the caller's inputs.
HistoryResult == find_cycle_with_history(initial_state, step, max_iterations)

\* First index i >= 1 whose state occurred at an earlier index.
IsFirstRepeat(i) ==
    /\ i >= 1
    /\ \E j \in 0..(i - 1) : state_at(j) = state_at(i)
    /\ \A k \in 1..(i - 1) : \A j \in 0..(k - 1) : state_at(j) # state_at(k)

\* ---------------------------------------------------------------- claims
\* C1: get_state_at_iteration returns exactly the state reached by applying
\* step target_iteration times to initial_state, whichever branch answered
\* (inside the history window, beyond it, or the fallback).
C1_ResolverConsistency ==
    fn = "get_state_at_iteration" =>
        /\ result.tag = "value"
        /\ result.state = state_at(target_iteration)

\* A target beyond the history window of a sequence with a prefix.
C1_Witness ==
    /\ fn = "get_state_at_iteration"
    /\ result.tag = "value"
    /\ result.branch = "jump"
    /\ HistoryResult.cycle_start > 0
    /\ target_iteration > Len(HistoryResult.history) + 1

\* C2: whenever find_cycle and find_cycle_with_history both return a result
\* for the same inputs, they report the same cycle_start and cycle_length.
C2_Agreement ==
    (fn = "find_cycle" /\ result.tag # "None" /\ HistoryResult.tag = "tuple") =>
        /\ result.tag = "tuple"
        /\ result.cycle_start = HistoryResult.cycle_start
        /\ result.cycle_length = HistoryResult.cycle_length

C2_Witness ==
    /\ fn = "find_cycle"
    /\ result.tag = "tuple"
    /\ HistoryResult.tag = "tuple"
    /\ result.cycle_start > 0
    /\ result.cycle_length > 1

\* C3: a find_cycle result is the minimal cycle: cycle_length is the smallest
\* L > 0 with state_at(i) = state_at(i + L) for some i, cycle_start the
\* smallest such i, state = state_at(cycle_start); a constant step from
\* another state gives (1, 1, constant), an initial state on the cycle gives
\* cycle_start 0.
C3_FloydMinimal ==
    (fn = "find_cycle" /\ result.tag # "None") =>
        /\ result.tag = "tuple"
        /\ result.cycle_length = TrueLength
        /\ result.cycle_start = TrueStart
        /\ result.state = state_at(result.cycle_start)
        /\ \A c \in States :
               ((\A x \in States : step[x] = c) /\ initial_state # c) =>
                   result = [tag |-> "tuple", cycle_start |-> 1, cycle_length |-> 1, state |-> c]
        /\ (\E k \in 1..NumStates : state_at(k) = initial_state) => result.cycle_start = 0

\* The meeting round (a multiple of the length) is larger than the length.
C3_Witness ==
    /\ fn = "find_cycle"
    /\ result.tag = "tuple"
    /\ result.cycle_start = 2
    /\ result.cycle_length = 1
    /\ step[result.state] = result.state

\* C4: every cycle reported by find_cycle or find_cycle_with_history has
\* cycle_start >= 0, cycle_length > 0, state_at(i) = state_at(i + cycle_length)
\* for all i >= cycle_start, and cycle_length steps from the representative
\* state lead back to it.
C4_Representative ==
    IF fn = "find_cycle" THEN result.state
    ELSE PyIndex(result.history, result.cycle_start).state

C4_Periodicity ==
    (fn \in {"find_cycle", "find_cycle_with_history"} /\ result.tag # "None") =>
        /\ result.tag = "tuple"
        /\ result.cycle_start >= 0
        /\ result.cycle_length > 0
        /\ \A i \in result.cycle_start..(result.cycle_start + 2 * NumStates) :
               state_at(i) = state_at(i + result.cycle_length)
        /\ (fn = "find_cycle_with_history" => result.cycle_start < Len(result.history))
        /\ Iterate(step, C4_Representative, result.cycle_length) = C4_Representative

C4_Witness ==
    /\ fn = "find_cycle_with_history"
    /\ result.tag = "tuple"
    /\ result.cycle_start = 1
    /\ result.cycle_length = 2

\* C5: a find_cycle_with_history result has len(history) = cycle_start +
\* cycle_length, history[j] = state_at(j) for every index j, history[0] =
\* initial_state, and pairwise distinct entries.
C5_HistoryShape ==
    (fn = "find_cycle_with_history" /\ result.tag = "tuple") =>
        /\ Len(result.history) = result.cycle_start + result.cycle_length
        /\ \A j \in 0..(Len(result.history) - 1) :
               PyIndex(result.history, j) = [tag |-> "value", state |-> state_at(j)]
        /\ PyIndex(result.history, 0) = [tag |-> "value", state |-> initial_state]
        /\ \A j, k \in 1..Len(result.history) :
               j # k => result.history[j] # result.history[k]

C5_Witness ==
    /\ fn = "find_cycle_with_history"
    /\ result.tag = "tuple"
    /\ result.cycle_start > 0
    /\ Len(result.history) = NumStates

\* C6: simulate_until_repeat returns a result exactly when
\* find_cycle_with_history does on the same inputs; then iteration =
\* cycle_start + cycle_length, state = history[cycle_start], and iteration is
\* the first index i >= 1 whose state equals the state at an earlier index.
C6_RepeatEquivalence ==
    fn = "simulate_until_repeat" =>
        /\ result.tag \in {"tuple", "None"}
        /\ (result.tag = "tuple") <=> (HistoryResult.tag = "tuple")
        /\ result.tag = "tuple" =>
               /\ result.iteration = HistoryResult.cycle_start + HistoryResult.cycle_length
               /\ PyIndex(HistoryResult.history, HistoryResult.cycle_start)
                      = [tag |-> "value", state |-> result.state]
               /\ IsFirstRepeat(result.iteration)

C6_Witness ==
    /\ fn = "simulate_until_repeat"
    /\ result.tag = "tuple"
    /\ HistoryResult.tag = "tuple"
    /\ HistoryResult.cycle_start > 0
    /\ result.state # initial_state
    /\ result.iteration = max_iterations - 1

\* C7 as stated: detect_cycle_in_sequence on the history list returned by
\* find_cycle_with_history returns the same (cycle_start, cycle_length).
C7_Original ==
    (fn = "detect_cycle_in_sequence" /\ HistoryResult.tag = "tuple"
         /\ sequence = HistoryResult.history) =>
        /\ result.tag = "tuple"
        /\ result.cycle_start = HistoryResult.cycle_start
        /\ result.cycle_length = HistoryResult.cycle_length

\* The history list followed by the state that closes the cycle.
C7_ClosedHistory ==
    Append(HistoryResult.history,
           step[HistoryResult.history[Len(HistoryResult.history)]])

\* C7 (amended): detect_cycle_in_sequence returns not found on the history
\* list itself (its entries are distinct), and returns the History Detector's
\* (cycle_start, cycle_length) on the history list followed by the next
\* state step(history[-1]).
C7_SequenceOnHistory ==
    (fn = "detect_cycle_in_sequence" /\ HistoryResult.tag = "tuple") =>
        /\ sequence = HistoryResult.history => result = NoneValue
        /\ sequence = C7_ClosedHistory =>
               result = [tag |-> "tuple",
                         cycle_start |-> HistoryResult.cycle_start,
                         cycle_length |-> HistoryResult.cycle_length]

C7_Witness ==
    /\ fn = "detect_cycle_in_sequence"
    /\ HistoryResult.tag = "tuple"
    /\ sequence = C7_ClosedHistory
    /\ result.tag = "tuple"
    /\ result.cycle_start = 1
    /\ result.cycle_length = 2

\* C8: detect_cycle_in_sequence returns (j, i - j) for the smallest index i
\* whose value occurred earlier and the first index j holding that value
\* (0 <= j < i, sequence[j] = sequence[i], all elements before i distinct),
\* and not found exactly when all elements are distinct.
C8_Occurred(i) == \E j \in 0..(i - 1) : sequence[j + 1] = sequence[i + 1]

C8_AllDistinct == \A i \in 0..(Len(sequence) - 1) : ~C8_Occurred(i)

C8_SequenceResult ==
    fn = "detect_cycle_in_sequence" =>
        /\ result.tag \in {"tuple", "None"}
        /\ (result = NoneValue) <=> C8_AllDistinct
        /\ result.tag = "tuple" =>
               LET i == result.cycle_start + result.cycle_length
                   j == result.cycle_start
               IN /\ 0 <= j /\ j < i /\ i < Len(sequence)
                  /\ C8_Occurred(i)
                  /\ \A k \in 0..(i - 1) : ~C8_Occurred(k)
                  /\ sequence[j + 1] = sequence[i + 1]
                  /\ \A k \in 0..(j - 1) : sequence[k + 1] # sequence[i + 1]

\* A repeat that is neither adjacent nor of the first element.
C8_Witness ==
    /\ fn = "detect_cycle_in_sequence"
    /\ result = [tag |-> "tuple", cycle_start |-> 1, cycle_length |-> 2]
    /\ Len(sequence) = 4

\* C9: find_cycle, find_cycle_with_history and simulate_until_repeat called
\* with max_iterations smaller than the true cycle length return the
\* not-found value; they never raise or loop forever, and end with a tuple
\* or the not-found value only.
C9_BoundedFailure ==
    fn \in {"find_cycle", "find_cycle_with_history", "simulate_until_repeat"} =>
        /\ result.tag \in {"tuple", "None"}
        /\ max_iterations < TrueLength => result = NoneValue

C9_Witness ==
    /\ fn = "find_cycle"
    /\ max_iterations >= 1
    /\ max_iterations = TrueLength - 1
    /\ TrueStart = 0
    /\ result = NoneValue

\* C10: when find_cycle_with_history reports not found, get_state_at_iteration
\* returns a state (no not-found value, no exception): it applies step
\* exactly target_iteration times from initial_state and returns the result.
C10_ResolverFallback ==
    (fn = "get_state_at_iteration" /\ HistoryResult = NoneValue) =>
        /\ result.tag = "value"
        /\ result.branch = "fallback"
        /\ result.steps = target_iteration
        /\ result.state = Iterate(step, initial_state, result.steps)

C10_Witness ==
    /\ fn = "get_state_at_iteration"
    /\ HistoryResult = NoneValue
    /\ max_iterations >= 2
    /\ target_iteration >= 3
    /\ result.tag = "value"
    /\ result.state # initial_state

\* C11 as stated: find_cycle_with_history and simulate_until_repeat examine
\* the iterations 1..max_iterations, the last one included: they return a
\* result exactly when the first repeated state occurs at an iteration
\* i <= max_iterations.
C11_HistoryBound ==
    fn \in {"find_cycle_with_history", "simulate_until_repeat"} =>
        ((result.tag = "tuple") <=> (\E i \in 1..max_iterations : IsFirstRepeat(i)))

\* Meets(r): slow and fast are equal after round r of phase 1.
Meets(r) == state_at(r) = state_at(2 * r)

\* C12: find_cycle returns not found exactly when slow and fast are unequal
\* after each of the first max_iterations rounds; a meeting at a round
\* r <= max_iterations gives a descriptor.
C12_FloydBound ==
    fn = "find_cycle" =>
        /\ (result = NoneValue) <=> (\A r \in 1..max_iterations : ~Meets(r))
        /\ (\E r \in 1..max_iterations : Meets(r)) => result.tag = "tuple"

\* The first meeting happens in the last permitted round.
C12_Witness ==
    /\ fn = "find_cycle"
    /\ result.tag = "tuple"
    /\ max_iterations >= 2
    /\ Meets(max_iterations)
    /\ \A r \in 1..(max_iterations - 1) : ~Meets(r)

\* Detected(g): the generator has seen a repeated state.
Detected(g) == g.pc \in {"detected", "cycling"}

\* No state recurs at an iteration the generator's bookkeeping loop,
\* range(1, max_iterations), reaches.
NoRepeatTracked == \A i \in 1..(max_iterations - 1) : ~IsFirstRepeat(i)

\* C13: the generator emits (0, initial_state) first, and the k-th emitted
\* pair (from 0) is (k, state after k applications of step): consecutive
\* indices without gaps or duplicates, before and after a repeat is seen.
C13_GeneratorOutput ==
    /\ \A k \in 1..Len(emitted) : emitted[k] = <<k - 1, state_at(k - 1)>>
    /\ gen.pc # "start" => (Len(emitted) >= 1 /\ emitted[1] = <<0, initial_state>>)
    /\ gen.last = "yield" => (Len(emitted) = gen.i + 1 /\ emitted[Len(emitted)] = <<gen.i, gen.state>>)

\* Two pairs emitted after the detection, in a sequence with a prefix.
C13_Witness ==
    /\ gen.pc = "cycling"
    /\ Len(emitted) >= 6
    /\ emitted[2][2] # initial_state
    /\ \A k \in 2..Len(emitted) : emitted[k][2] # initial_state
    /\ emitted[Len(emitted)][2] # emitted[Len(emitted) - 1][2]

\* C14: once a repeated state has been seen, every further pull yields a
\* pair: the generator does not end, also past iteration max_iterations.
C14_NeverStopsAfterDetection ==
    [][Detected(gen) =>
          /\ Detected(gen')
          /\ gen'.last = "yield"
          /\ emitted' = Append(emitted, <<Len(emitted), state_at(Len(emitted))>>)]_vars

C14_Witness ==
    /\ Detected(gen)
    /\ gen.last = "yield"
    /\ gen.i > max_iterations + 1

\* C15 as stated: when no repeat is found within the bookkeeping pass the
\* generator does not terminate; every pull keeps yielding a pair.
C15_Original == gen.last # "StopIteration"

\* C15 (amended): when no repeated state is found within the bookkeeping
\* pass (iterations 1..max_iterations-1), the generator emits the pairs of
\* iterations 0..max_iterations-1 (the pair (0, initial_state) alone when
\* max_iterations <= 1) and the next pull ends it (StopIteration); it ends in
\* no other case, and it yields without tracking only after a repeat.
C15_Limit == IF max_iterations >= 1 THEN max_iterations ELSE 1

C15_StopsAtLimit ==
    /\ NoRepeatTracked => (Len(emitted) <= C15_Limit /\ ~Detected(gen))
    /\ (gen.last = "StopIteration") <=> (gen.pc = "done")
    /\ gen.pc = "done" => (NoRepeatTracked /\ Len(emitted) = C15_Limit)
    /\ gen.pc \in {"first", "tracked"} => DOMAIN gen.seen = {emitted[k][2] : k \in 1..Len(emitted)}

C15_Witness ==
    /\ gen.pc = "done"
    /\ gen.last = "StopIteration"
    /\ max_iterations >= 3
    /\ Len(emitted) = max_iterations

\* C16: from the pull that first meets an already-seen state on, the
\* generator's cycle_info attribute holds the cycle's start and length.
C16_CycleInfo ==
    Detected(gen) =>
        gen.cycle_info = [tag |-> "tuple", cycle_start |-> TrueStart, cycle_length |-> TrueLength]

\* The phases of the find_cycle call on the caller's arguments.
FloydPhases == floyd_phases(initial_state, step, max_iterations)

\* C18: find_cycle, find_cycle_with_history, simulate_until_repeat,
\* detect_cycle_in_sequence and get_state_at_iteration terminate on every
\* input; once phase 1 of find_cycle found a meeting point, its phase 2 and
\* phase 3 loops, which max_iterations does not bound, exit (after at most
\* NumStates iterations each).
C18_Termination ==
    /\ fn \in Functions => result.tag \in {"tuple", "None", "value"}
    /\ (fn = "find_cycle" /\ FloydPhases.phase1.met) =>
           /\ FloydPhases.phase2.exited
           /\ FloydPhases.phase2.cycle_start < NumStates
           /\ FloydPhases.phase3.exited
           /\ FloydPhases.phase3.cycle_length <= NumStates
           /\ result.tag = "tuple"

\* Both unbounded loops iterate, with the smallest safety limit that lets
\* phase 1 meet.
C18_Witness ==
    /\ fn = "find_cycle"
    /\ result.tag = "tuple"
    /\ FloydPhases.phase1.rounds = max_iterations
    /\ FloydPhases.phase2.cycle_start >= 1
    /\ FloydPhases.phase3.cycle_length >= 2

\* C19: after phase 1 found a meeting point, phase 2 (slow reset to
\* initial_state, both advanced one step at a time until equal) makes
\* exactly cycle_start advances and leaves slow at the state of index
\* cycle_start; none when initial_state is on the cycle.
C19_PhaseTwoCount ==
    (fn = "find_cycle" /\ FloydPhases.phase1.met) =>
        /\ FloydPhases.phase2.exited
        /\ FloydPhases.phase2.cycle_start = TrueStart
        /\ FloydPhases.phase2.slow = state_at(TrueStart)
        /\ FloydPhases.phase2.fast = FloydPhases.phase2.slow
        /\ result.tag = "tuple"
        /\ result.cycle_start = FloydPhases.phase2.cycle_start
        /\ (\E k \in 1..NumStates : state_at(k) = initial_state) =>
               (FloydPhases.phase2.cycle_start = 0 /\ FloydPhases.phase2.slow = initial_state)

\* Two advances before the pointers meet at the start of the cycle.
C19_Witness ==
    /\ fn = "find_cycle"
    /\ FloydPhases.phase1.met
    /\ FloydPhases.phase2.exited
    /\ FloydPhases.phase2.cycle_start = 2
    /\ FloydPhases.phase2.slow # initial_state
    /\ FloydPhases.phase2.slow # step[initial_state]

\* C20: when phase 1 meets at round r, slow is the state of index r and
\* fast the state of index 2r; r is the smallest positive multiple of the
\* true cycle length that is >= the true cycle start, so r <= cycle_start +
\* cycle_length, and the meeting state lies on the cycle.
C20_MeetingPoint ==
    (fn = "find_cycle" /\ FloydPhases.phase1.met) =>
        LET r == FloydPhases.phase1.rounds
        IN /\ r >= 1 /\ r <= max_iterations
           /\ FloydPhases.phase1.slow = state_at(r)
           /\ FloydPhases.phase1.fast = state_at(2 * r)
           /\ r % TrueLength = 0
           /\ r >= TrueStart
           /\ \A q \in 1..(r - 1) : ~(q % TrueLength = 0 /\ q >= TrueStart)
           /\ r <= TrueStart + TrueLength
           /\ Iterate(step, FloydPhases.phase1.slow, TrueLength) = FloydPhases.phase1.slow
           /\ \E k \in TrueStart..(TrueStart + TrueLength - 1) :
                  state_at(k) = FloydPhases.phase1.slow

\* A meeting at a round that is neither the cycle start nor the cycle
\* length: prefix 1, length 2, meeting at round 2.
C20_Witness ==
    /\ fn = "find_cycle"
    /\ FloydPhases.phase1.met
    /\ FloydPhases.phase1.rounds = 2
    /\ TrueStart = 1
    /\ TrueLength = 2

\* C21: when the History Detector found a cycle, get_state_at_iteration
\* answers a target beyond the history window with
\* history[cycle_start + ((target_iteration - cycle_start) mod cycle_length)],
\* an index that stays inside cycle_start..len(history)-1, and a target
\* inside the window with history[target_iteration]; target 0 gives
\* initial_state and every target cycle_start + k*cycle_length gives the
\* state at cycle_start.  (Sequence positions are 1-based, list indices
\* 0-based.)
C21_JumpIndex ==
    LET h == HistoryResult
        index == h.cycle_start + ((target_iteration - h.cycle_start) % h.cycle_length)
    IN (fn = "get_state_at_iteration" /\ h.tag = "tuple") =>
           /\ result.tag = "value"
           /\ target_iteration >= Len(h.history) =>
                  /\ result.branch = "jump"
                  /\ h.cycle_start <= index
                  /\ index < Len(h.history)
                  /\ result.state = h.history[index + 1]
           /\ target_iteration < Len(h.history) =>
                  /\ result.branch = "history"
                  /\ result.state = h.history[target_iteration + 1]
           /\ target_iteration = 0 => result.state = initial_state
           /\ (/\ target_iteration >= h.cycle_start
               /\ (target_iteration - h.cycle_start) % h.cycle_length = 0) =>
                  result.state = h.history[h.cycle_start + 1]

\* A jump that lands on the last entry of the history window of a sequence
\* with a prefix and a cycle longer than one.
C21_Witness ==
    /\ fn = "get_state_at_iteration"
    /\ HistoryResult.tag = "tuple"
    /\ result.tag = "value"
    /\ result.branch = "jump"
    /\ HistoryResult.cycle_start > 0
    /\ HistoryResult.cycle_length > 1
    /\ (target_iteration - HistoryResult.cycle_start) % HistoryResult.cycle_length
           = HistoryResult.cycle_length - 1

\* C22: for the same initial_state, step and max_iterations, whenever
\* find_cycle_with_history returns a descriptor, find_cycle returns a
\* descriptor as well (it neither gives up nor diverges).
C22_FloydFindsHistoryCycles ==
    (fn = "find_cycle" /\ HistoryResult.tag = "tuple") => result.tag = "tuple"

\* The History Detector succeeded in its last iteration and find_cycle
\* needed as many rounds as the History Detector needed iterations.
C22_Witness ==
    /\ fn = "find_cycle"
    /\ HistoryResult.tag = "tuple"
    /\ result.tag = "tuple"
    /\ HistoryResult.cycle_start + HistoryResult.cycle_length = max_iterations - 1
    /\ FloydPhases.phase1.rounds = max_iterations - 1
    /\ max_iterations > 2

\* C23: on the list of the first n states generated by step from
\* initial_state, detect_cycle_in_sequence returns (TrueStart, TrueLength)
\* when n >= TrueStart + TrueLength + 1 and None when
\* n <= TrueStart + TrueLength.
C23_GeneratedPrefix ==
    (/\ fn = "detect_cycle_in_sequence"
     /\ sequence = materialize(step, initial_state, Len(sequence))) =>
        IF Len(sequence) >= TrueStart + TrueLength + 1
        THEN result = [tag |-> "tuple", cycle_start |-> TrueStart,
                       cycle_length |-> TrueLength]
        ELSE result = NoneValue

\* The shortest generated prefix that holds the repeat, of a sequence with a
\* prefix and a cycle longer than one.
C23_Witness ==
    /\ fn = "detect_cycle_in_sequence"
    /\ sequence = materialize(step, initial_state, Len(sequence))
    /\ Len(sequence) = TrueStart + TrueLength + 1
    /\ TrueStart > 0
    /\ TrueLength > 1
    /\ result.tag = "tuple"

\* The History Detector's local variables at its return, for the caller's
\* inputs.
HistoryLocals == find_cycle_with_history_locals(initial_state, step, max_iterations)

\* C28: when find_cycle_with_history returns a descriptor it has evaluated
\* step exactly cycle_start + cycle_length times, its seen map has exactly
\* len(history) keys and maps each history[j] to j, and the repeated state
\* that caused the return is not appended to history (history ends with the
\* state before it).
C28_HistoryWork ==
    LET loc == HistoryLocals
    IN (fn = "find_cycle_with_history" /\ result.tag = "tuple") =>
           /\ loc.found
           /\ result = [tag |-> "tuple", cycle_start |-> loc.seen[loc.state],
                        cycle_length |-> loc.i - loc.seen[loc.state],
                        history |-> loc.history]
           /\ Len(loc.calls) = result.cycle_start + result.cycle_length
           /\ Cardinality(DOMAIN loc.seen) = Len(result.history)
           /\ \A j \in 0..(Len(result.history) - 1) :
                  /\ result.history[j + 1] \in DOMAIN loc.seen
                  /\ loc.seen[result.history[j + 1]] = j
           /\ loc.state = state_at(result.cycle_start + result.cycle_length)
           /\ Len(result.history) = result.cycle_start + result.cycle_length
           /\ result.history[Len(result.history)]
                  = state_at(result.cycle_start + result.cycle_length - 1)

\* A descriptor with a prefix and a cycle longer than one, found after
\* three evaluations.
C28_Witness ==
    /\ fn = "find_cycle_with_history"
    /\ result.tag = "tuple"
    /\ result.cycle_start > 0
    /\ result.cycle_length > 1
    /\ Len(HistoryLocals.calls) = 3

\* C24: the generator keeps the History Detector's seen bookkeeping.  While
\* it tracks, seen maps exactly the states of the indices emitted so far to
\* those indices; it finds an already-seen state exactly at index
\* cycle_start + cycle_length of the History Detector's descriptor for the
\* same inputs, and only if the History Detector returns one; from then on
\* seen is the History Detector's seen map (the states of indices
\* 0..cycle_start+cycle_length-1 with their first indices) and never
\* changes; a generator that ended without detection had no descriptor to
\* find.
C24_DetectionPoint ==
    LET h == HistoryResult
    IN /\ gen.pc \in {"first", "tracked"} =>
              /\ h.tag = "tuple" => gen.i < h.cycle_start + h.cycle_length
              /\ DOMAIN gen.seen = {state_at(j) : j \in 0..gen.i}
              /\ \A j \in 0..gen.i : gen.seen[state_at(j)] = j
       /\ gen.pc = "detected" =>
              /\ h.tag = "tuple"
              /\ gen.i = h.cycle_start + h.cycle_length
              /\ gen.state \in DOMAIN gen.seen
              /\ gen.seen[gen.state] = h.cycle_start
       /\ Detected(gen) =>
              /\ h.tag = "tuple"
              /\ gen.seen = HistoryLocals.seen
              /\ DOMAIN gen.seen
                     = {state_at(j) : j \in 0..(h.cycle_start + h.cycle_length - 1)}
              /\ \A j \in 0..(h.cycle_start + h.cycle_length - 1) :
                     gen.seen[state_at(j)] = j
       /\ gen.pc = "done" => h = NoneValue

\* Two pulls after the detection of a cycle with a prefix and a length
\* above one.
C24_Witness ==
    /\ gen.pc = "cycling"
    /\ HistoryResult.tag = "tuple"
    /\ HistoryResult.cycle_start > 0
    /\ HistoryResult.cycle_length > 1
    /\ gen.i = HistoryResult.cycle_start + HistoryResult.cycle_length + 2

\* C25 as stated: after the first pull, every pull evaluates step exactly
\* once.  Violated by the pull that finds range(1, max_iterations) exhausted:
\* it raises StopIteration and evaluates nothing.
C25_Original ==
    [][gen.pc # "start" => gen'.evals = gen.evals + 1]_vars

\* C25: step is evaluated only by pulls.  The first pull evaluates it zero
\* times, every later pull that yields a pair exactly once, a pull that ends
\* the generator not at all; no step without a yielded pair changes the
\* count, and at every suspension point (and after the end) the count is
\* the number of pairs emitted minus one.
C25_Laziness ==
    /\ [](IF gen.pc = "start"
          THEN gen.evals = 0 /\ emitted = <<>>
          ELSE gen.evals = Len(emitted) - 1)
    /\ [][/\ gen.pc = "start" => gen'.evals = 0
          /\ (gen.pc # "start" /\ gen'.last = "yield") => gen'.evals = gen.evals + 1
          /\ gen'.last = "StopIteration" => gen'.evals = gen.evals
          /\ gen'.evals # gen.evals => Len(emitted') = Len(emitted) + 1]_vars

\* A generator that ended after two evaluations and three pairs.
C25_Witness ==
    /\ gen.pc = "done"
    /\ gen.last = "StopIteration"
    /\ gen.evals = 2
    /\ Len(emitted) = 3

\* The arguments of find_cycle's evaluations of step, for the caller's
\* inputs.
FindCycleCalls == find_cycle_calls(initial_state, step, max_iterations)

\* The local variables of the find_cycle call on the caller's inputs, one
\* record per point of the call.
FindCycleLocals == find_cycle_locals(initial_state, step, max_iterations)

\* The record binds slow and fast to one state each and nothing else but
\* integer counters: no local holds a collection.
ConstantSpace(locals) ==
    /\ {"slow", "fast"} \subseteq DOMAIN locals
    /\ DOMAIN locals \subseteq {"slow", "fast", "_", "cycle_start", "cycle_length"}
    /\ locals.slow \in States
    /\ locals.fast \in States
    /\ \A name \in DOMAIN locals \ {"slow", "fast"} : locals[name] \in Nat

\* C27: when find_cycle returns a descriptor it has evaluated step
\* 3*r + 2*cycle_start + cycle_length times, r the round of phase 1 in which
\* slow and fast met, 1 <= r <= cycle_start + cycle_length; hence at most
\* 6*(cycle_start + cycle_length) times.  At every point of any find_cycle
\* call the locals are slow, fast and integer counters only, never a
\* collection; the call passes r + cycle_start + cycle_length + 2 such
\* points and the last one holds the returned descriptor.
C27_FloydCost ==
    LET r == FloydPhases.phase1.rounds
        last == FindCycleLocals[Len(FindCycleLocals)]
    IN /\ fn = "find_cycle" =>
              /\ Len(FindCycleLocals) >= 1
              /\ \A k \in 1..Len(FindCycleLocals) : ConstantSpace(FindCycleLocals[k])
       /\ (fn = "find_cycle" /\ result.tag = "tuple") =>
              /\ FloydPhases.phase1.met
              /\ r >= 1
              /\ r <= result.cycle_start + result.cycle_length
              /\ Len(FindCycleCalls) = 3 * r + 2 * result.cycle_start + result.cycle_length
              /\ Len(FindCycleCalls) <= 6 * (result.cycle_start + result.cycle_length)
              /\ Len(FindCycleLocals) = r + result.cycle_start + result.cycle_length + 2
              /\ DOMAIN last = {"slow", "fast", "_", "cycle_start", "cycle_length"}
              /\ last.slow = result.state
              /\ last.cycle_start = result.cycle_start
              /\ last.cycle_length = result.cycle_length
              /\ last["_"] = r - 1

\* A descriptor with a prefix and a cycle of length two: two rounds, one
\* iteration of phase 2, ten evaluations and seven points in all.
C27_Witness ==
    /\ fn = "find_cycle"
    /\ result.tag = "tuple"
    /\ result.cycle_start = 1
    /\ result.cycle_length = 2
    /\ FloydPhases.phase1.rounds = 2
    /\ Len(FindCycleCalls) = 10
    /\ Len(FindCycleLocals) = 7

\* calls[1] is initial_state and calls[k] the value the (k-1)-th evaluation
\* returned: evaluation k computes the state of index k, each index once.
Sequential(calls) ==
    \A k \in 1..Len(calls) :
        /\ calls[k] = (IF k = 1 THEN initial_state ELSE step[calls[k - 1]])
        /\ step[calls[k]] = state_at(k)

\* Every argument is initial_state or a value an earlier evaluation
\* returned.
FromEarlier(calls) ==
    \A k \in 1..Len(calls) :
        \/ calls[k] = initial_state
        \/ \E j \in 1..(k - 1) : calls[k] = step[calls[j]]

RepeatCalls == simulate_until_repeat_calls(initial_state, step, max_iterations)

ResolverCalls ==
    get_state_at_iteration_calls(initial_state, step, target_iteration, max_iterations)

\* C26: the evaluations of step made by a find_cycle_with_history call, by
\* a simulate_until_repeat call and by the fallback loop of a
\* get_state_at_iteration call are sequential: the first on initial_state,
\* each later one on the value the one before returned, as many as the call
\* accounts for; the generator's evaluation number k is made on the state
\* of index k-1 and leaves the state of index k; every evaluation of a
\* find_cycle call is made on initial_state or on a value an earlier
\* evaluation of the call returned.
C26_SequentialEvaluation ==
    /\ [](/\ fn = "find_cycle_with_history" =>
                 /\ Sequential(HistoryLocals.calls)
                 /\ IF HistoryLocals.found \/ Len(HistoryLocals.history) > 1
                    THEN Len(HistoryLocals.calls) = HistoryLocals.i
                    ELSE Len(HistoryLocals.calls) = 0 /\ HistoryLocals.i = "unbound"
          /\ fn = "simulate_until_repeat" =>
                 /\ Sequential(RepeatCalls)
                 /\ result.tag = "tuple" => Len(RepeatCalls) = result.iteration
          /\ (fn = "get_state_at_iteration" /\ HistoryResult = NoneValue) =>
                 /\ result.branch = "fallback"
                 /\ Sequential(ResolverCalls.fallback)
                 /\ Len(ResolverCalls.fallback) = target_iteration
                 /\ result.steps = target_iteration
          /\ fn = "find_cycle" => FromEarlier(FindCycleCalls)
          /\ gen.state = state_at(gen.evals))
    /\ [][gen'.evals # gen.evals =>
              /\ gen'.evals = gen.evals + 1
              /\ gen'.state = step[gen.state]]_vars

\* The fallback loop made three evaluations and the generator ended after
\* two.
C26_Witness ==
    /\ fn = "get_state_at_iteration"
    /\ result.branch = "fallback"
    /\ Len(ResolverCalls.fallback) = 3
    /\ gen.pc = "done"
    /\ gen.evals = 2

====
